---- MODULE Spec2Model ----
(***************************************************************************)
(* Model of src/pptx_build/preview.mjs: the slide-screenshot and           *)
(* grid-composition pipeline (screenshotSlides, makeGrid, main and the     *)
(* top-level catch handler).  One action per await point: the synchronous  *)
(* code that follows an await runs in the same step, as it does in JS.     *)
(***************************************************************************)
EXTENDS Integers, Sequences, FiniteSets

\* Bound of the model: the longest slide list explored.
MaxSlides == 12

\* Bounds of the repeated-run specification: the number of runs of the
\* program and the longest slide list explored there.
MaxRuns == 2
MaxRerunSlides == 5

\* preview.mjs:24-28
WIDTH == 960
HEIGHT == 540
COLS == 4
GAP == 18
LABEL_H == 30

VARIABLES
  slideFiles,  \* the ordered list of slide sources (preview.mjs:14-22)
  pc,          \* the await point the run is suspended at
  browser,     \* "none", "open" or "closed"
  closeCalls,  \* number of browser.close() calls made
  page,        \* <<>> before newPage, else <<url>>: what the shared page shows
  i,           \* loop index of screenshotSlides
  outputs,     \* outputs array of screenshotSlides
  previewDir,  \* files of outDir: file name -> captured image
  thrown,      \* exception propagating through the finally block, or NoErr
  images,      \* argument of makeGrid
  rows, gridW, gridH,
  idx,         \* loop index of makeGrid
  composites,  \* composites array of makeGrid
  gridPng,     \* <<>> while outGrid is not written, else <<file content>>
  rejection,   \* reason main()'s promise rejected with, or NoErr
  raised,      \* every error raised by a library call, in order
  stdout, stderr,
  exitCode,    \* process.exitCode (unset counts as 0)
  run,         \* which run of the program this is, from 1
  prevRun      \* <<>>, or <<what the run before this one left>> if it succeeded

vars == <<slideFiles, pc, browser, closeCalls, page, i, outputs, previewDir,
          thrown, images, rows, gridW, gridH, idx, composites, gridPng,
          rejection, raised, stdout, stderr, exitCode, run, prevRun>>

captureVars == <<browser, closeCalls, page, i, outputs, previewDir, thrown>>
gridVars == <<images, rows, gridW, gridH, idx, composites, gridPng>>
outVars == <<stdout, stderr, exitCode>>
runVars == <<run, prevRun>>

N == Len(slideFiles)

NoErr == [op |-> "none", slide |-> 0]
Err(op, k) == [op |-> op, slide |-> k]

\* The slide lists explored: the literal list of the source in its order,
\* its prefixes and longer lists, and the same lists in reverse order.
SlideLists ==
  { [k \in 1..n |-> IF asc THEN k ELSE n + 1 - k] :
      n \in 0..MaxSlides, asc \in BOOLEAN }

\* `file://${htmlFile}`
Url(htmlFile) == [scheme |-> "file", file |-> htmlFile]

\* String(n) for n >= 0, as the sequence of its decimal digits.
RECURSIVE StringOf(_)
StringOf(n) == IF n < 10 THEN <<n>> ELSE StringOf(n \div 10) \o <<n % 10>>

\* s.padStart(len, fill) on digit sequences.
RECURSIVE PadStart(_, _, _)
PadStart(s, len, fill) ==
  IF Len(s) >= len THEN s ELSE PadStart(<<fill>> \o s, len, fill)

\* The slide lists explored when the program is run more than once.
RerunSlideLists == { l \in SlideLists : Len(l) <= MaxRerunSlides }

\* Variant: the file number is the 0-based loop index.
OutFileZeroBased(k) ==
  [dir |-> "preview", stem |-> "slide-", num |-> PadStart(StringOf(k), 2, 0),
   ext |-> ".png"]

\* path.join(outDir, `slide-${String(i + 1).padStart(2, "0")}.png`)
OutFile(k) ==
  [dir |-> "preview", stem |-> "slide-", num |-> PadStart(StringOf(k + 1), 2, 0),
   ext |-> ".png"]

\* Variant: a file that already exists is kept as it is.
WriteFileKeepExisting(dir, name, data) ==
  [f \in DOMAIN dir \cup {name} |-> IF f \in DOMAIN dir THEN dir[f] ELSE data]

\* Writing a file creates it or replaces its content.
WriteFile(dir, name, data) ==
  [f \in DOMAIN dir \cup {name} |-> IF f = name THEN data ELSE dir[f]]

\* Variant: Math.floor in place of Math.ceil.
RowsFloor(n) == n \div COLS

\* Math.ceil(n / COLS)
Rows(n) == IF n % COLS = 0 THEN n \div COLS ELSE n \div COLS + 1
GridW == COLS * WIDTH + (COLS + 1) * GAP
\* Variant: one gap per row, the closing gap left out.
GridHMissingGap(r) == r * (HEIGHT + LABEL_H) + r * GAP
GridH(r) == r * (HEIGHT + LABEL_H) + (r + 1) * GAP

\* makeGrid's per-index placement (preview.mjs:73-76)
Row(k) == k \div COLS
\* Variant: the column is taken from the 1-based ordinal.
ColOneBased(k) == (k + 1) % COLS
Col(k) == k % COLS
CellX(k) == GAP + Col(k) * (WIDTH + GAP)
\* Variant: the row pitch leaves out the label band.
CellYNoLabel(k) == GAP + Row(k) * (HEIGHT + GAP)
CellY(k) == GAP + Row(k) * (HEIGHT + LABEL_H + GAP)

\* The state of a process that has just loaded the module, on an empty disk.
FreshProcess ==
  /\ pc = "idle"
  /\ browser = "none"
  /\ closeCalls = 0
  /\ page = <<>>
  /\ i = 0
  /\ outputs = <<>>
  /\ previewDir = <<>>
  /\ thrown = NoErr
  /\ images = <<>>
  /\ rows = -1 /\ gridW = -1 /\ gridH = -1
  /\ idx = 0
  /\ composites = <<>>
  /\ gridPng = <<>>
  /\ rejection = NoErr
  /\ raised = <<>>
  /\ stdout = <<>>
  /\ stderr = <<>>
  /\ exitCode = 0
  /\ run = 1
  /\ prevRun = <<>>

Init ==
  /\ slideFiles \in SlideLists
  /\ FreshProcess

InitRerun ==
  /\ slideFiles \in RerunSlideLists
  /\ FreshProcess

\* An await outside the try block rejects: the async function rejects with
\* the error and main() rejects with it in turn.
Reject(err) ==
  /\ raised' = Append(raised, err)
  /\ rejection' = err
  /\ pc' = "rejected"

\* Variant: browser.close() is the last statement of the try body instead of
\* a finally block, so an exception leaves without closing.
ThrowInTryNoFinally(err) ==
  /\ raised' = Append(raised, err)
  /\ thrown' = err
  /\ pc' = "rejected"

\* Variant: a catch-all swallows the exception and the function goes on to
\* return outputs.
ThrowInTrySwallowed(err) ==
  /\ raised' = Append(raised, err)
  /\ thrown' = NoErr
  /\ pc' = "finally"

\* An await inside the try block rejects: control goes to the finally block
\* with the error pending.
ThrowInTry(err) ==
  /\ raised' = Append(raised, err)
  /\ thrown' = err
  /\ pc' = "finally"

\* main() is called: screenshotSlides runs up to its first await.
Main ==
  /\ pc = "idle"
  /\ pc' = "ensureDir"
  /\ UNCHANGED <<slideFiles, runVars, captureVars, gridVars, outVars, rejection, raised>>

\* await ensureDir(outDir)
EnsureDir ==
  /\ pc = "ensureDir"
  /\ \/ pc' = "launch" /\ UNCHANGED <<rejection, raised>>
     \/ Reject(Err("mkdir", 0))
  /\ UNCHANGED <<slideFiles, runVars, captureVars, gridVars, outVars>>

\* const browser = await chromium.launch()
Launch ==
  /\ pc = "launch"
  /\ \/ /\ browser' = "open"
        /\ pc' = "newPage"
        /\ UNCHANGED <<rejection, raised>>
     \/ Reject(Err("launch", 0)) /\ UNCHANGED browser
  /\ UNCHANGED <<slideFiles, runVars, closeCalls, page, i, outputs, previewDir, thrown,
                 gridVars, outVars>>

\* Where the for loop of screenshotSlides goes with index k.
LoopPc(k) == IF k < N THEN "goto" ELSE "finally"

\* const page = await browser.newPage(...); outputs = []; i = 0; loop test
NewPage ==
  /\ pc = "newPage"
  /\ \/ /\ page' = <<[scheme |-> "about", file |-> 0]>>
        /\ outputs' = <<>>
        /\ i' = 0
        /\ pc' = LoopPc(0)
        /\ UNCHANGED <<thrown, raised>>
     \/ ThrowInTry(Err("newPage", 0)) /\ UNCHANGED <<page, outputs, i>>
  /\ UNCHANGED <<slideFiles, runVars, browser, closeCalls, previewDir, gridVars,
                 outVars, rejection>>

\* await page.goto(url)
Goto ==
  /\ pc = "goto"
  /\ \/ /\ page' = <<Url(slideFiles[i + 1])>>
        /\ pc' = "wait"
        /\ UNCHANGED <<thrown, raised>>
     \/ ThrowInTry(Err("goto", i + 1)) /\ UNCHANGED page
  /\ UNCHANGED <<slideFiles, runVars, browser, closeCalls, i, outputs, previewDir,
                 gridVars, outVars, rejection>>

\* await page.waitForTimeout(50)
WaitForTimeout ==
  /\ pc = "wait"
  /\ \/ pc' = "screenshot" /\ UNCHANGED <<thrown, raised>>
     \/ ThrowInTry(Err("waitForTimeout", i + 1))
  /\ UNCHANGED <<slideFiles, runVars, browser, closeCalls, page, i, outputs, previewDir,
                 gridVars, outVars, rejection>>

\* Variant: a per-slide catch records the failure and the loop goes on with
\* the next slide.
ScreenshotContinuesOnFailure ==
  /\ pc = "screenshot"
  /\ \/ /\ previewDir' = WriteFile(previewDir, OutFile(i), [shot |-> page[1]])
        /\ outputs' = Append(outputs, OutFile(i))
        /\ i' = i + 1
        /\ pc' = LoopPc(i + 1)
        /\ UNCHANGED <<thrown, raised>>
     \/ /\ raised' = Append(raised, Err("screenshot", i + 1))
        /\ thrown' = Err("screenshot", i + 1)
        /\ i' = i + 1
        /\ pc' = LoopPc(i + 1)
        /\ UNCHANGED <<previewDir, outputs>>
  /\ UNCHANGED <<slideFiles, runVars, browser, closeCalls, page, gridVars, outVars,
                 rejection>>

\* await page.screenshot({ path: outFile }); outputs.push(outFile); i += 1;
\* loop test
Screenshot ==
  /\ pc = "screenshot"
  /\ \/ /\ previewDir' = WriteFile(previewDir, OutFile(i), [shot |-> page[1]])
        /\ outputs' = Append(outputs, OutFile(i))
        /\ i' = i + 1
        /\ pc' = LoopPc(i + 1)
        /\ UNCHANGED <<thrown, raised>>
     \/ /\ ThrowInTry(Err("screenshot", i + 1))
        /\ UNCHANGED <<previewDir, outputs, i>>
  /\ UNCHANGED <<slideFiles, runVars, browser, closeCalls, page, gridVars, outVars,
                 rejection>>

\* finally { await browser.close() }: then the pending error is rethrown or
\* outputs is returned to main(), which passes it to makeGrid.  An error
\* raised by close() replaces the pending one.
CloseBrowser ==
  /\ pc = "finally"
  /\ closeCalls' = closeCalls + 1
  /\ \/ /\ browser' = "closed"
        /\ IF thrown # NoErr
             THEN /\ rejection' = thrown
                  /\ pc' = "rejected"
                  /\ UNCHANGED images
             ELSE /\ images' = outputs
                  /\ pc' = "makeGrid"
                  /\ UNCHANGED rejection
        /\ UNCHANGED raised
     \/ /\ browser' \in {"open", "closed"}
        /\ Reject(Err("close", 0))
        /\ UNCHANGED images
  /\ UNCHANGED <<slideFiles, runVars, page, i, outputs, previewDir, thrown,
                 rows, gridW, gridH, idx, composites, gridPng, outVars>>

\* Where the for loop of makeGrid goes with index k.
GridLoopPc(k) == IF k < Len(images) THEN "decode" ELSE "toFile"

\* makeGrid up to its first await: rows, gridW, gridH, base, composites = []
MakeGrid ==
  /\ pc = "makeGrid"
  /\ rows' = Rows(Len(images))
  /\ gridW' = GridW
  /\ gridH' = GridH(Rows(Len(images)))
  /\ composites' = <<>>
  /\ idx' = 0
  /\ pc' = GridLoopPc(0)
  /\ UNCHANGED <<slideFiles, runVars, captureVars, images, gridPng, outVars, rejection,
                 raised>>

\* The two layers pushed for index k with the decoded buffer buf.
Layers(k, buf) ==
  << [input |-> buf, left |-> CellX(k), top |-> CellY(k)],
     [input |-> [label |-> k + 1], left |-> CellX(k), top |-> CellY(k) + HEIGHT] >>

\* Variant: an image that fails to decode is skipped and the loop goes on.
DecodeSkipsFailed ==
  /\ pc = "decode"
  /\ \/ /\ images[idx + 1] \in DOMAIN previewDir
        /\ composites' = composites \o Layers(idx, previewDir[images[idx + 1]])
        /\ idx' = idx + 1
        /\ pc' = GridLoopPc(idx + 1)
        /\ UNCHANGED <<rejection, raised>>
     \/ /\ raised' = Append(raised, Err("decode", idx + 1))
        /\ idx' = idx + 1
        /\ pc' = GridLoopPc(idx + 1)
        /\ UNCHANGED <<composites, rejection>>
  /\ UNCHANGED <<slideFiles, runVars, captureVars, images, rows, gridW, gridH, gridPng,
                 outVars>>

\* await sharp(images[idx]).png().toBuffer(); the two pushes; idx += 1;
\* loop test
Decode ==
  /\ pc = "decode"
  /\ \/ /\ images[idx + 1] \in DOMAIN previewDir
        /\ composites' = composites \o Layers(idx, previewDir[images[idx + 1]])
        /\ idx' = idx + 1
        /\ pc' = GridLoopPc(idx + 1)
        /\ UNCHANGED <<rejection, raised>>
     \/ /\ Reject(Err("decode", idx + 1))
        /\ UNCHANGED <<composites, idx>>
  /\ UNCHANGED <<slideFiles, runVars, captureVars, images, rows, gridW, gridH, gridPng,
                 outVars>>

\* await base.composite(composites).png().toFile(outGrid)
ToFile ==
  /\ pc = "toFile"
  /\ \/ /\ gridPng' = <<[width |-> gridW, height |-> gridH, layers |-> composites]>>
        /\ pc' = "log"
        /\ UNCHANGED <<rejection, raised>>
     \/ Reject(Err("toFile", 0)) /\ UNCHANGED gridPng
  /\ UNCHANGED <<slideFiles, runVars, captureVars, images, rows, gridW, gridH, idx,
                 composites, outVars>>

\* console.log(outGrid); makeGrid and main() return
ConsoleLog ==
  /\ pc = "log"
  /\ stdout' = Append(stdout, "preview-grid.png")
  /\ pc' = "done"
  /\ UNCHANGED <<slideFiles, runVars, captureVars, gridVars, stderr, exitCode,
                 rejection, raised>>

\* Variant: the handler logs the error and leaves process.exitCode unset.
CatchNoExitCode ==
  /\ pc = "rejected"
  /\ stderr' = Append(stderr, rejection)
  /\ pc' = "failed"
  /\ UNCHANGED <<slideFiles, runVars, captureVars, gridVars, stdout, exitCode,
                 rejection, raised>>

\* main().catch((err) => { console.error(err); process.exitCode = 1; })
Catch ==
  /\ pc = "rejected"
  /\ stderr' = Append(stderr, rejection)
  /\ exitCode' = 1
  /\ pc' = "failed"
  /\ UNCHANGED <<slideFiles, runVars, captureVars, gridVars, stdout, rejection, raised>>

Next ==
  \/ Main
  \/ EnsureDir
  \/ Launch
  \/ NewPage
  \/ Goto
  \/ WaitForTimeout
  \/ Screenshot
  \/ CloseBrowser
  \/ MakeGrid
  \/ Decode
  \/ ToFile
  \/ ConsoleLog
  \/ Catch

Spec == Init /\ [][Next]_vars

\* The program is started again after a run has ended: a new process with
\* fresh module state, on the disk the earlier run left.  The slide list is
\* the same as before or has been edited in the meantime.
Rerun ==
  /\ pc \in {"done", "failed"}
  /\ run < MaxRuns
  /\ run' = run + 1
  /\ prevRun' = IF pc = "done"
                  THEN <<[slideFiles |-> slideFiles, preview |-> previewDir,
                          grid |-> gridPng]>>
                  ELSE <<>>
  /\ slideFiles' \in RerunSlideLists
  /\ pc' = "idle"
  /\ browser' = "none"
  /\ closeCalls' = 0
  /\ page' = <<>>
  /\ i' = 0
  /\ outputs' = <<>>
  /\ thrown' = NoErr
  /\ images' = <<>>
  /\ rows' = -1 /\ gridW' = -1 /\ gridH' = -1
  /\ idx' = 0
  /\ composites' = <<>>
  /\ rejection' = NoErr
  /\ raised' = <<>>
  /\ stdout' = <<>>
  /\ stderr' = <<>>
  /\ exitCode' = 0
  /\ UNCHANGED <<previewDir, gridPng>>

NextRerun ==
  \/ Next
  \/ Rerun

SpecRerun == InitRerun /\ [][NextRerun]_vars

TypeOK ==
  /\ pc \in {"idle", "ensureDir", "launch", "newPage", "goto", "wait",
             "screenshot", "finally", "makeGrid", "decode", "toFile", "log",
             "done", "rejected", "failed"}
  /\ browser \in {"none", "open", "closed"}
  /\ i \in 0..N /\ idx \in 0..N
  /\ exitCode \in {0, 1}

\* The stage of the run the await point belongs to: main() not yet called,
\* inside screenshotSlides, inside makeGrid, main() resolved, main() rejected.
Stage ==
  CASE pc = "idle" -> "IDLE"
    [] pc \in {"ensureDir", "launch", "newPage", "goto", "wait", "screenshot",
               "finally"} -> "CAPTURING"
    [] pc \in {"makeGrid", "decode", "toFile", "log"} -> "COMPOSITING"
    [] pc = "done" -> "DONE"
    [] pc \in {"rejected", "failed"} -> "FAILED"

Terminated == pc \in {"done", "failed"}

\* screenshotSlides has been left, by return or by exception.
CaptureExited == Stage \in {"COMPOSITING", "DONE", "FAILED"}

\* screenshotSlides returned its outputs.
CaptureSucceeded ==
  \/ Stage \in {"COMPOSITING", "DONE"}
  \/ Stage = "FAILED" /\ rejection.op \in {"decode", "toFile"}

\* makeGrid has computed its layout.
LayoutComputed == rows # -1

----------------------------------------------------------------------------
\* C1: once chromium.launch() has succeeded, browser.close() is called
\* exactly once on every exit path of screenshotSlides (return, or a failure
\* of newPage, goto, the settle wait or screenshot): never twice, never zero
\* times after the exit, and the page is not navigated and nothing is
\* captured after the close.
C1_ClosedExactlyOnce ==
  /\ [](/\ closeCalls <= 1
        /\ browser = "none" => closeCalls = 0
        /\ (browser # "none" /\ CaptureExited) => closeCalls = 1)
  /\ [][closeCalls >= 1 =>
          /\ page' = page
          /\ previewDir' = previewDir
          /\ outputs' = outputs]_vars

C1_Witness ==
  /\ pc = "failed"
  /\ rejection.op = "screenshot"
  /\ rejection.slide = 2
  /\ closeCalls = 1
  /\ browser = "closed"

----------------------------------------------------------------------------
\* C2: when the process ends, its exit code is 0 exactly when no step of the
\* capture stage or of the composite stage raised an error (all slides
\* captured and the composite written); otherwise it is non-zero and the
\* error is on standard error.
C2_ExitCode ==
  Terminated =>
    /\ exitCode = 0 <=> raised = <<>>
    /\ exitCode = 0 <=>
         (pc = "done" /\ Len(outputs) = N /\ gridPng # <<>>)
    /\ exitCode # 0 =>
         /\ stderr # <<>>
         /\ \A k \in 1..Len(stderr) : \E j \in 1..Len(raised) : stderr[k] = raised[j]

C2_Witness ==
  /\ pc = "failed"
  /\ exitCode = 1
  /\ raised = <<Err("decode", 3)>>
  /\ stderr = <<Err("decode", 3)>>

----------------------------------------------------------------------------
\* C3: preview-grid.png is written only after every slide was captured and
\* every captured image was decoded, with no error raised before; the
\* per-slide captures are never removed, so the ones written before a
\* failure are still on disk at the end of a failed run.
C3_GridOnlyAfterAll ==
  /\ [](gridPng # <<>> =>
          /\ raised = <<>>
          /\ Len(outputs) = N
          /\ Len(images) = N
          /\ Len(composites) = 2 * N
          /\ \A k \in 1..N :
               /\ images[k] \in DOMAIN previewDir
               /\ composites[2 * k - 1].input = previewDir[images[k]])
  /\ [](raised # <<>> => gridPng = <<>>)
  /\ [](\A k \in 1..Len(outputs) : outputs[k] \in DOMAIN previewDir)
  /\ [][\A f \in DOMAIN previewDir : f \in DOMAIN previewDir']_vars

C3_Witness ==
  /\ pc = "failed"
  /\ N >= 3
  /\ rejection = Err("decode", N)
  /\ Len(composites) = 2 * (N - 1)
  /\ Cardinality(DOMAIN previewDir) = N
  /\ gridPng = <<>>

----------------------------------------------------------------------------
\* C4: when screenshotSlides succeeds on N slides it returns N pairwise
\* distinct paths, the k-th being slide-<k as two decimal digits>.png, and
\* the file at the k-th path is the capture of the k-th entry of the list.
C4_OutputPaths ==
  CaptureSucceeded =>
    /\ Len(images) = N
    /\ \A a, b \in 1..N : a # b => images[a] # images[b]
    /\ \A k \in 1..N :
         /\ images[k].dir = "preview"
         /\ images[k].stem = "slide-"
         /\ images[k].ext = ".png"
         /\ images[k].num = <<k \div 10, k % 10>>
         /\ images[k] \in DOMAIN previewDir
         /\ previewDir[images[k]] = [shot |-> Url(slideFiles[k])]

C4_Witness ==
  /\ CaptureSucceeded
  /\ N >= 10
  /\ slideFiles[1] = N
  /\ images[10].num = <<1, 0>>
  /\ previewDir[images[10]] = [shot |-> Url(N - 9)]

----------------------------------------------------------------------------
\* C5: with 0 slide files the run rejects before any capture work: the
\* browser is never launched, no layout is computed, no composite is
\* written, and the run does not end successfully.
C5_EmptyRejected ==
  N = 0 =>
    /\ browser = "none"
    /\ closeCalls = 0
    /\ rows = -1
    /\ gridPng = <<>>
    /\ pc # "done"
    /\ Terminated => exitCode # 0

----------------------------------------------------------------------------
\* C6: when a run fails, what is logged to standard error is the first
\* error raised in the run; a later error (such as one from browser.close()
\* in the cleanup) does not replace it.
C6_FirstErrorReported ==
  pc = "failed" =>
    /\ stderr # <<>>
    /\ stderr[1] = raised[1]

----------------------------------------------------------------------------
\* C7: for N >= 1 images, rows is the least integer with rows * COLS >= N
\* (that is, ceil(N / COLS)), the canvas is COLS * WIDTH + (COLS + 1) * GAP
\* wide and rows * (HEIGHT + LABEL_H) + (rows + 1) * GAP high, and all three
\* are positive.
C7_Layout ==
  (LayoutComputed /\ Len(images) >= 1) =>
    /\ rows * COLS >= Len(images)
    /\ (rows - 1) * COLS < Len(images)
    /\ gridW = COLS * WIDTH + (COLS + 1) * GAP
    /\ gridH = rows * (HEIGHT + LABEL_H) + (rows + 1) * GAP
    /\ rows > 0 /\ gridW > 0 /\ gridH > 0
    /\ gridPng # <<>> => (gridPng[1].width = gridW /\ gridPng[1].height = gridH)

C7_Witness ==
  /\ pc = "done"
  /\ Len(images) = 7
  /\ rows = 2
  /\ gridW = 3930
  /\ gridH = 1194

----------------------------------------------------------------------------
\* The rectangle a layer covers: an image layer (odd position) is
\* WIDTH x HEIGHT, a label layer (even position) is WIDTH x LABEL_H.
LayerRect(p) ==
  [x |-> composites[p].left, y |-> composites[p].top, w |-> WIDTH,
   h |-> IF p % 2 = 1 THEN HEIGHT ELSE LABEL_H]

\* The cell of the s-th slide: origin of its image, WIDTH x (HEIGHT + LABEL_H).
CellRect(s) ==
  [x |-> composites[2 * s - 1].left, y |-> composites[2 * s - 1].top,
   w |-> WIDTH, h |-> HEIGHT + LABEL_H]

Disjoint(r, q) ==
  \/ r.x + r.w <= q.x
  \/ q.x + q.w <= r.x
  \/ r.y + r.h <= q.y
  \/ q.y + q.h <= r.y

\* The slide a layer belongs to.
SlideOfLayer(p) == (p + 1) \div 2

\* C8: the cells of two different slides are disjoint, and so no image or
\* label of one slide overlaps an image or label of another.
C8_CellsDisjoint ==
  /\ \A a, b \in 1..(Len(composites) \div 2) :
       a # b => Disjoint(CellRect(a), CellRect(b))
  /\ \A p, q \in 1..Len(composites) :
       SlideOfLayer(p) # SlideOfLayer(q) => Disjoint(LayerRect(p), LayerRect(q))

C8_Witness ==
  /\ pc = "toFile"
  /\ Len(composites) = 2 * N
  /\ N >= 9
  /\ composites[1].left = composites[2 * 5 - 1].left
  /\ composites[1].top < composites[2 * 5 - 1].top

----------------------------------------------------------------------------
StageOrder ==
  { <<"IDLE", "CAPTURING">>, <<"CAPTURING", "COMPOSITING">>,
    <<"COMPOSITING", "DONE">>, <<"CAPTURING", "FAILED">>,
    <<"COMPOSITING", "FAILED">> }

\* C9: the run moves IDLE -> CAPTURING -> COMPOSITING -> DONE, never back;
\* compositing runs only with every slide captured and the browser closed;
\* the composite path is printed only once the file is written; after an
\* error the only stage that can follow is FAILED, and nothing but the
\* report of the error happens there.
C9_LinearStages ==
  /\ [][Stage' = Stage \/ <<Stage, Stage'>> \in StageOrder]_vars
  /\ [](Stage = "COMPOSITING" =>
          /\ browser = "closed" /\ closeCalls = 1
          /\ raised = <<>>
          /\ Len(images) = N
          /\ \A k \in 1..N : images[k] \in DOMAIN previewDir)
  /\ [](stdout # <<>> => gridPng # <<>>)
  /\ [](Stage = "DONE" => (gridPng # <<>> /\ stdout # <<>> /\ raised = <<>>))
  /\ [][raised' # <<>> => Stage' \in {Stage, "FAILED"}]_vars
  /\ [][Stage = "FAILED" =>
          UNCHANGED <<captureVars, gridVars, stdout, slideFiles>>]_vars

C9_Witness ==
  /\ pc = "failed"
  /\ rejection = Err("toFile", 0)
  /\ browser = "closed"
  /\ Len(composites) = 2 * N
  /\ N >= 1
  /\ gridPng = <<>>
  /\ stdout = <<>>

----------------------------------------------------------------------------
RowPitch == HEIGHT + LABEL_H + GAP
ColPitch == WIDTH + GAP

\* The grid cell whose origin is the origin of the image of the s-th slide.
CellOf(s) ==
  [row |-> (composites[2 * s - 1].top - GAP) \div RowPitch,
   col |-> (composites[2 * s - 1].left - GAP) \div ColPitch]

OnGrid(s) ==
  /\ (composites[2 * s - 1].top - GAP) % RowPitch = 0
  /\ (composites[2 * s - 1].left - GAP) % ColPitch = 0

Occupied == { CellOf(s) : s \in 1..(Len(composites) \div 2) }
GridCells == [row : 0..(rows - 1), col : 0..(COLS - 1)]
EmptyCells == GridCells \ Occupied

\* C10: the image of 0-based index k sits on the grid at row k div COLS,
\* column k mod COLS; when all are placed the occupied cells are the first N
\* cells in row-major order, the empty ones are all in the last row and
\* number rows * COLS - N < COLS; 7 images give 2 rows and one empty cell,
\* the fourth of the second row.
C10_RowMajor ==
  /\ \A s \in 1..(Len(composites) \div 2) :
       /\ OnGrid(s)
       /\ CellOf(s).col \in 0..(COLS - 1)
       /\ CellOf(s).row * COLS + CellOf(s).col = s - 1
  /\ (LayoutComputed /\ Len(composites) = 2 * Len(images)) =>
       /\ Occupied \subseteq GridCells
       /\ Cardinality(Occupied) = Len(images)
       /\ Cardinality(EmptyCells) = rows * COLS - Len(images)
       /\ Cardinality(EmptyCells) < COLS
       /\ \A e \in EmptyCells : e.row = rows - 1
       /\ Len(images) = 7 =>
            /\ rows = 2
            /\ EmptyCells = {[row |-> 1, col |-> 3]}

C10_Witness ==
  /\ pc = "done"
  /\ Len(images) = 7
  /\ Cardinality(Occupied) = 7
  /\ EmptyCells = {[row |-> 1, col |-> 3]}

----------------------------------------------------------------------------
\* The slide (1-based) whose capture is under way, 0 when none is.
InProgress == IF pc \in {"goto", "wait", "screenshot"} THEN i + 1 ELSE 0

\* C11: slides are captured one at a time on the one shared page: while
\* slide k is being navigated to, settled or captured, exactly the k - 1
\* slides before it are captured and in outputs; the navigation of a slide
\* starts only from newPage or from the completed screenshot of the slide
\* before it, goto is followed by the wait and the wait by the screenshot;
\* and once a step has failed, nothing more is navigated to or captured.
C11_Sequential ==
  /\ [](InProgress # 0 =>
          /\ InProgress \in 1..N
          /\ Len(outputs) = InProgress - 1
          /\ \A k \in 1..Len(outputs) :
               /\ outputs[k] \in DOMAIN previewDir
               /\ previewDir[outputs[k]] = [shot |-> Url(slideFiles[k])]
          /\ Cardinality(DOMAIN previewDir) = InProgress - 1
          /\ pc \in {"wait", "screenshot"} => page = <<Url(slideFiles[InProgress])>>
          /\ thrown = NoErr /\ raised = <<>>)
  /\ [][(pc' = "goto" /\ pc # "goto") =>
          \/ pc = "newPage" /\ i' = 0
          \/ /\ pc = "screenshot"
             /\ i' = i + 1
             /\ Len(outputs') = Len(outputs) + 1
             /\ previewDir'[outputs'[i + 1]] = [shot |-> Url(slideFiles[i + 1])]]_vars
  /\ [][(pc = "goto" /\ pc' # pc) => pc' \in {"wait", "finally"}]_vars
  /\ [][(pc = "wait" /\ pc' # pc) => pc' \in {"screenshot", "finally"}]_vars
  /\ [][(pc = "screenshot" /\ pc' # pc) => pc' \in {"goto", "finally"}]_vars
  /\ [][InProgress' # 0 => InProgress' \in {InProgress, InProgress + 1}]_vars
  /\ [][raised # <<>> =>
          /\ page' = page
          /\ previewDir' = previewDir
          /\ outputs' = outputs
          /\ InProgress' = 0]_vars

C11_Witness ==
  /\ pc = "failed"
  /\ N >= 4
  /\ rejection = Err("waitForTimeout", 3)
  /\ page = <<Url(slideFiles[3])>>
  /\ Len(outputs) = 2
  /\ Cardinality(DOMAIN previewDir) = 2

----------------------------------------------------------------------------
\* r lies inside a w x h canvas with at least GAP to each edge.
InsideWithGap(r, w, h) ==
  /\ r.x >= GAP
  /\ r.y >= GAP
  /\ r.x + r.w <= w - GAP
  /\ r.y + r.h <= h - GAP

\* C12: every image and every label band placed lies inside the computed
\* canvas with at least GAP to each edge; the label of a slide has the x of
\* its image, sits directly below it at y + HEIGHT, and carries the slide's
\* 1-based ordinal; the written composite has that canvas size.
C12_InsideCanvas ==
  /\ \A p \in 1..Len(composites) : InsideWithGap(LayerRect(p), gridW, gridH)
  /\ \A s \in 1..(Len(composites) \div 2) :
       /\ InsideWithGap(CellRect(s), gridW, gridH)
       /\ composites[2 * s].left = composites[2 * s - 1].left
       /\ composites[2 * s].top = composites[2 * s - 1].top + HEIGHT
       /\ composites[2 * s].input = [label |-> s]
  /\ gridPng # <<>> =>
       \A p \in 1..Len(gridPng[1].layers) :
         /\ gridPng[1].layers[p] = composites[p]
         /\ InsideWithGap(LayerRect(p), gridPng[1].width, gridPng[1].height)

C12_Witness ==
  /\ pc = "done"
  /\ N >= 8
  /\ composites[2 * 8].left + WIDTH = gridW - GAP
  /\ composites[2 * 8].top + LABEL_H = gridH - GAP
  /\ composites[2 * 8].input = [label |-> 8]

----------------------------------------------------------------------------
\* C13: a run that succeeds leaves, at the paths it wrote, results that are
\* a function of its ordered slide list alone, whatever an earlier run left
\* on disk: the k-th capture file holds the capture of the k-th entry and
\* the composite is the computed canvas with those captures and labels in
\* order; so a successful run over the same list as the successful run
\* before it leaves the capture files and the composite exactly as they were.
C13_Idempotent ==
  pc = "done" =>
    /\ Len(images) = N
    /\ \A k \in 1..N :
         /\ images[k].num = <<k \div 10, k % 10>>
         /\ previewDir[images[k]] = [shot |-> Url(slideFiles[k])]
    /\ gridPng = <<[width |-> COLS * WIDTH + (COLS + 1) * GAP,
                    height |-> rows * (HEIGHT + LABEL_H) + (rows + 1) * GAP,
                    layers |-> composites]>>
    /\ Len(composites) = 2 * N
    /\ \A k \in 1..N :
         /\ composites[2 * k - 1].input = [shot |-> Url(slideFiles[k])]
         /\ composites[2 * k].input = [label |-> k]
    /\ (prevRun # <<>> /\ prevRun[1].slideFiles = slideFiles) =>
         /\ previewDir = prevRun[1].preview
         /\ gridPng = prevRun[1].grid

C13_Witness ==
  /\ pc = "done"
  /\ run = 2
  /\ N = 5
  /\ slideFiles[1] = 5
  /\ prevRun # <<>>
  /\ prevRun[1].slideFiles = slideFiles
  /\ previewDir = prevRun[1].preview
  /\ gridPng = prevRun[1].grid
====
